---- MODULE Spec2Model ----
(***************************************************************************)
(* Waitlist-confirmation estimator of the RailBooker AI gateway            *)
(* (src/ai-gateway/app/services/ml_service.py) together with the request   *)
(* validation and the HTTP route that call it.                             *)
(*                                                                         *)
(* Numbers.  The estimator works on IEEE doubles.  Every quantity it       *)
(* multiplies is a decimal with at most two places, so the product         *)
(*   0.7 * position_factor * days_factor * class_factor * weekend_factor   *)
(* is an exact multiple of 10^-9.  Probabilities are therefore modelled as *)
(* integers counting units of 10^-9 (PROB_ONE = 1.0) and the factors as    *)
(* integers counting hundredths.  The exact product is 7 * (an integer)    *)
(* units, hence never equal to any threshold the code compares it with     *)
(* (0.05, 0.2, 0.3, 0.4, 0.6, 0.8, 0.95 are not multiples of 7 units) and  *)
(* at least 10^-9 away from each, while the double result is within 3e-16  *)
(* of the exact one: every comparison of the code has the same outcome on  *)
(* the double and on the exact value.                                      *)
(*                                                                         *)
(* Time.  A datetime is an integer number of ticks, TicksPerDay ticks per  *)
(* calendar day, tick 0 of a day being exactly midnight.  A date string    *)
(* 'YYYY-MM-DD' is the tuple <<y, m, d>>; strptime and strftime convert    *)
(* between it and the proleptic Gregorian day ordinal as datetime does.    *)
(***************************************************************************)
EXTENDS Integers, Sequences, FiniteSets, TLC

VARIABLES
    clock,      \* the wall clock, in ticks
    request,    \* the body (or argument) of the call in flight
    via,        \* the entry point the call came through
    reads,      \* the clock readings the call made
    features,   \* the feature dict of the call
    outcome,    \* how the call ended; "none" when no call is in flight
    result,     \* what the call returned
    previous,   \* the completed call before this one, as its caller kept it
    service,    \* the fields of the MLService instance, shared by all calls
    tasks       \* the locals of each concurrent call of the service

vars == <<clock, request, via, reads, features, outcome, result, previous,
          service, tasks>>

----------------------------------------------------------------------------
(* Bounds of the model *)

\* ticks per calendar day (the code's clock has microsecond resolution)
TicksPerDay == 2
\* how many ticks the clock may advance in total
MaxClockTicks == 1
\* how many ticks may pass between the first and the last clock read of a call
MaxDrift == 1
\* waitlist positions 0 .. DensePositions are all explored
DensePositions == 34
\* journey dates span JourneyDaysBack days before and JourneyDaysAhead days
\* after the day the clock starts on
JourneyDaysBack == 1
JourneyDaysAhead == 21

Max(a, b) == IF a >= b THEN a ELSE b
Min(a, b) == IF a <= b THEN a ELSE b

----------------------------------------------------------------------------
(* Calendar: datetime.strptime(.., '%Y-%m-%d'), strftime, weekday, month *)

None == <<>>

IsLeap(y) == (y % 4 = 0) /\ ((y % 100 # 0) \/ (y % 400 = 0))

DaysInMonth(y, m) ==
    IF m = 2 THEN (IF IsLeap(y) THEN 29 ELSE 28)
    ELSE IF m \in {4, 6, 9, 11} THEN 30 ELSE 31

DaysBeforeYear(y) ==
    LET p == y - 1 IN p * 365 + (p \div 4) - (p \div 100) + (p \div 400)

RECURSIVE DaysBeforeMonth(_, _)
DaysBeforeMonth(y, m) ==
    IF m = 1 THEN 0 ELSE DaysBeforeMonth(y, m - 1) + DaysInMonth(y, m - 1)

\* day ordinal of a calendar date; 0001-01-01 is day 1
ymd2ord(y, m, d) == DaysBeforeYear(y) + DaysBeforeMonth(y, m) + d

\* the years the model's dates fall in
Years == 2023 .. 2025

\* calendar date of a day ordinal
ord2ymd(n) ==
    LET y == CHOOSE yy \in Years :
                 DaysBeforeYear(yy) < n /\ n <= DaysBeforeYear(yy + 1)
        r == n - DaysBeforeYear(y)
        m == CHOOSE mm \in 1 .. 12 :
                 DaysBeforeMonth(y, mm) < r
                 /\ r <= DaysBeforeMonth(y, mm) + DaysInMonth(y, mm)
    IN  <<y, m, r - DaysBeforeMonth(y, m)>>

\* does the string name a real calendar date (strptime raises ValueError if not)
IsRealDate(s) ==
    /\ s[1] \in 1 .. 9999
    /\ s[2] \in 1 .. 12
    /\ s[3] \in 1 .. DaysInMonth(s[1], s[2])

\* datetime.strptime(s, '%Y-%m-%d'): midnight of the day, as ticks
strptime(s) == ymd2ord(s[1], s[2], s[3]) * TicksPerDay

\* dt.strftime('%Y-%m-%d')
strftime(dt) == ord2ymd(dt \div TicksPerDay)

\* dt.date(), as a day ordinal
DateOf(dt) == dt \div TicksPerDay

\* slip: isoweekday (Monday 1 .. Sunday 7) taken for weekday
isoweekday(dt) == ((DateOf(dt) + 6) % 7) + 1

\* dt.weekday(): Monday is 0, Sunday is 6
weekday(dt) == (DateOf(dt) + 6) % 7

\* dt.month
month(dt) == ord2ymd(DateOf(dt))[2]

\* timedelta(..).days of the difference a - b: floor of the day count
timedelta_days(a, b) == (a - b) \div TicksPerDay

----------------------------------------------------------------------------
(* MLService *)

\* probability 1.0 in model units (10^-9)
PROB_ONE == 10 * 100 * 100 * 100 * 100

\* n hundredths as a probability
Pct(n) == n * (PROB_ONE \div 100)

WAITLIST_MODEL_VERSION == "v2.0.0"

\* a string is a tuple of characters; the digit characters are 0 .. 9
IsDigits(s) == \A i \in 1 .. Len(s) : s[i] \in 0 .. 9

\* int(s) raises ValueError unless s is a non-empty string of digits
int_raises(s) == Len(s) = 0 \/ ~IsDigits(s)

\* int(s) for a string of digits
RECURSIVE int(_)
int(s) ==
    IF Len(s) = 0 THEN 0
    ELSE int(SubSeq(s, 1, Len(s) - 1)) * 10 + s[Len(s)]

class_mapping ==
    [c \in {"SL", "3A", "2A", "1A", "CC", "EC", "2S"} |->
        CASE c = "SL" -> 1 [] c = "3A" -> 2 [] c = "2A" -> 3 [] c = "1A" -> 4
          [] c = "CC" -> 5 [] c = "EC" -> 6 [] c = "2S" -> 7]

_encode_class(class_code) ==
    IF class_code \in DOMAIN class_mapping THEN class_mapping[class_code] ELSE 1

_decode_class(class_numeric) ==
    IF \E c \in DOMAIN class_mapping : class_mapping[c] = class_numeric
    THEN CHOOSE c \in DOMAIN class_mapping : class_mapping[c] = class_numeric
    ELSE "SL"

quota_mapping ==
    [q \in {"GENERAL", "LADIES", "SENIOR_CITIZEN", "TATKAL"} |->
        CASE q = "GENERAL" -> 1 [] q = "LADIES" -> 2
          [] q = "SENIOR_CITIZEN" -> 3 [] q = "TATKAL" -> 4]

_encode_quota(quota) ==
    IF quota \in DOMAIN quota_mapping THEN quota_mapping[quota] ELSE 1

\* _extract_features with the clock reading `now`
_extract_features(train_number, class_code, journey_date, waitlist_position, quota, now) ==
    LET journey_dt == strptime(journey_date) IN
    [ train_number      |-> int(train_number),
      class_numeric     |-> _encode_class(class_code),
      days_to_journey   |-> timedelta_days(journey_dt, now),
      waitlist_position |-> waitlist_position,
      quota_numeric     |-> _encode_quota(quota),
      is_weekend        |-> weekday(journey_dt) >= 5,
      month             |-> month(journey_dt),
      day_of_week       |-> weekday(journey_dt) ]

\* base_prob = 0.7, in tenths
base_prob == 7

\* slip: the position adjustment added instead of subtracted
position_factor_added(f) == Max(10, 100 + (f.waitlist_position * 2))

\* slip: the floor of the position factor at 0.2
position_factor_floor_high(f) == Max(20, 100 - (f.waitlist_position * 2))

\* slip: 0.01 lost per waitlist slot instead of 0.02
position_factor_slow(f) == Max(10, 100 - f.waitlist_position)

\* max(0.1, 1.0 - position * 0.02), in hundredths
position_factor(f) == Max(10, 100 - (f.waitlist_position * 2))

\* slip: the lead-time factor floored at 1.0
days_factor_floored(f) == Max(100, Min(120, 100 + (f.days_to_journey * 1)))

\* slip: the cap of the lead-time factor at 1.2 left out
days_factor_uncapped(f) == 100 + (f.days_to_journey * 1)

\* min(1.2, 1.0 + days_to_journey * 0.01), in hundredths
days_factor(f) == Min(120, 100 + (f.days_to_journey * 1))

\* class_factors.get(decoded class, 1.0), in hundredths
class_factors ==
    [c \in {"SL", "3A", "2A", "1A"} |->
        CASE c = "SL" -> 110 [] c = "3A" -> 90 [] c = "2A" -> 80 [] c = "1A" -> 70]

\* slip: a factor for the TATKAL quota
class_factor_by_quota(f) ==
    LET c == _decode_class(f.class_numeric) IN
    IF f.quota_numeric = 4 THEN 60
    ELSE IF c \in DOMAIN class_factors THEN class_factors[c] ELSE 100

class_factor(f) ==
    LET c == _decode_class(f.class_numeric) IN
    IF c \in DOMAIN class_factors THEN class_factors[c] ELSE 100

\* 0.9 if weekend else 1.0, in hundredths
weekend_factor(f) == IF f.is_weekend THEN 90 ELSE 100

\* the product before clamping
raw_probability(f) ==
    base_prob * position_factor(f) * days_factor(f) * class_factor(f) * weekend_factor(f)

\* slip: the lower clamp left out
probability_no_floor(f) == Min(Pct(95), raw_probability(f))

_calculate_confirmation_probability(f) ==
    Max(Pct(5), Min(Pct(95), raw_probability(f)))

\* slip: the bounds of the interval not clamped
interval_unclamped(probability) == <<probability - Pct(10), probability + Pct(10)>>

_calculate_confidence_interval(probability) ==
    LET margin == Pct(10)
        lower  == Max(0, probability - margin)
        upper  == Min(PROB_ONE, probability + margin)
    IN  <<lower, upper>>

\* slip: the tiers entered at their thresholds
days_before_inclusive(probability, waitlist_position) ==
    IF probability >= Pct(80) THEN Min(15, waitlist_position \div 2)
    ELSE IF probability >= Pct(60) THEN Min(10, waitlist_position \div 3)
    ELSE Min(5, waitlist_position \div 5)

(* _calculate_confidence_interval on Python floats (IEEE-754 binary64).
   A float in [0, 2) that is a multiple of 2^-57 (every float from 2^-5 up
   is one) is kept as the integer N of its value N * 2^-57, split in two
   limbs <<N \div Limb, N % Limb>>. *)
Limb == 2^29

BigAdd(a, b) ==
    LET lo == a[2] + b[2] IN <<a[1] + b[1] + (lo \div Limb), lo % Limb>>

\* a - b for a >= b
BigSub(a, b) ==
    LET lo == a[2] - b[2] IN
    IF lo >= 0 THEN <<a[1] - b[1], lo>> ELSE <<a[1] - b[1] - 1, lo + Limb>>

BigLess(a, b) == a[1] < b[1] \/ (a[1] = b[1] /\ a[2] < b[2])

BigLeq(a, b) == ~BigLess(b, a)

\* low bits of N beyond the 53 significant bits of a float
DroppedBits(a) ==
    IF a[1] >= 2^28 THEN 5
    ELSE IF a[1] >= 2^27 THEN 4
    ELSE IF a[1] >= 2^26 THEN 3
    ELSE IF a[1] >= 2^25 THEN 2
    ELSE IF a[1] >= 2^24 THEN 1
    ELSE 0

\* the float nearest to the exact value, ties to the even significand
RoundNearestEven(a) ==
    LET q    == 2^DroppedBits(a)
        r    == a[2] % q
        down == a[2] - r
        odd  == (a[2] \div q) % 2 = 1
        up   == (2 * r > q) \/ (2 * r = q /\ odd)
        lo   == IF up THEN down + q ELSE down
    IN  IF lo = Limb THEN <<a[1] + 1, 0>> ELSE <<a[1], lo>>

\* float a + b, and float a - b for a >= b
float_add(a, b) == RoundNearestEven(BigAdd(a, b))

float_sub(a, b) == RoundNearestEven(BigSub(a, b))

\* the literals 0.0, 1.0, 0.1 (0x1.999999999999ap-4) and 0.05 as floats
Float_0_0 == <<0, 0>>

Float_1_0 == <<2^28, 0>>

Float_0_1 == <<26843545, 322122548>>

Float_0_05 == <<13421772, 429496730>>

\* slip: a margin of 0.05 above the probability
confidence_interval_float_narrow(probability) ==
    LET lower == IF BigLess(probability, Float_0_1) THEN Float_0_0
                 ELSE float_sub(probability, Float_0_1)
        sum   == float_add(probability, Float_0_05)
        upper == IF BigLess(Float_1_0, sum) THEN Float_1_0 ELSE sum
    IN  <<lower, upper>>

_calculate_confidence_interval_float(probability) ==
    LET margin == Float_0_1
        lower  == IF BigLess(probability, margin) THEN Float_0_0
                  ELSE float_sub(probability, margin)
        sum    == float_add(probability, margin)
        upper  == IF BigLess(Float_1_0, sum) THEN Float_1_0 ELSE sum
    IN  <<lower, upper>>

\* days_before of _estimate_confirmation_date
days_before(probability, waitlist_position) ==
    IF probability > Pct(80) THEN Min(15, waitlist_position \div 2)
    ELSE IF probability > Pct(60) THEN Min(10, waitlist_position \div 3)
    ELSE Min(5, waitlist_position \div 5)

\* slip: the cut-off for "unlikely to confirm" at 0.2 instead of 0.3
estimate_date_low_cutoff(journey_date, probability, waitlist_position, now) ==
    IF probability < Pct(20) THEN None
    ELSE LET estimated_dt == strptime(journey_date)
                             - (days_before(probability, waitlist_position) * TicksPerDay)
         IN  IF estimated_dt < now THEN None ELSE strftime(estimated_dt)

\* slip: the check against past dates left out
estimate_date_unchecked(journey_date, probability, waitlist_position, now) ==
    IF probability < Pct(30) THEN None
    ELSE strftime(strptime(journey_date)
                  - (days_before(probability, waitlist_position) * TicksPerDay))

\* slip: the days counted forward from the journey
estimate_date_after_journey(journey_date, probability, waitlist_position, now) ==
    IF probability < Pct(30) THEN None
    ELSE LET estimated_dt == strptime(journey_date)
                             + (days_before(probability, waitlist_position) * TicksPerDay)
         IN  IF estimated_dt < now THEN None ELSE strftime(estimated_dt)

\* _estimate_confirmation_date with the clock reading `now`
_estimate_confirmation_date(journey_date, probability, waitlist_position, now) ==
    IF probability < Pct(30) THEN None
    ELSE LET journey_dt   == strptime(journey_date)
             estimated_dt == journey_dt
                             - (days_before(probability, waitlist_position) * TicksPerDay)
         IN  IF estimated_dt < now THEN None ELSE strftime(estimated_dt)

\* slip: the top band entered at 0.75
category_wide_top(probability) ==
    IF probability >= Pct(75) THEN "Very High"
    ELSE IF probability >= Pct(60) THEN "High"
    ELSE IF probability >= Pct(40) THEN "Medium"
    ELSE IF probability >= Pct(20) THEN "Low"
    ELSE "Very Low"

\* slip: strict comparisons, a probability on a threshold falls in the lower band
category_strict(probability) ==
    IF probability > Pct(80) THEN "Very High"
    ELSE IF probability > Pct(60) THEN "High"
    ELSE IF probability > Pct(40) THEN "Medium"
    ELSE IF probability > Pct(20) THEN "Low"
    ELSE "Very Low"

\* slip: the labels of the two middle bands exchanged
category_swapped(probability) ==
    IF probability >= Pct(80) THEN "Very High"
    ELSE IF probability >= Pct(60) THEN "Medium"
    ELSE IF probability >= Pct(40) THEN "High"
    ELSE IF probability >= Pct(20) THEN "Low"
    ELSE "Very Low"

_get_probability_category(probability) ==
    IF probability >= Pct(80) THEN "Very High"
    ELSE IF probability >= Pct(60) THEN "High"
    ELSE IF probability >= Pct(40) THEN "Medium"
    ELSE IF probability >= Pct(20) THEN "Low"
    ELSE "Very Low"

\* slip: state kept in the service between calls; the first call finds no
\* model loaded and answers with the lowest probability
predict_cold_start(train_number, class_code, journey_date, waitlist_position, quota, tf, te, ts) ==
    LET f == _extract_features(train_number, class_code, journey_date,
                               waitlist_position, quota, tf)
        probability == IF previous = <<>> THEN Pct(5)
                       ELSE _calculate_confirmation_probability(f)
    IN  [ train_number                |-> train_number,
          class_code                  |-> class_code,
          journey_date                |-> journey_date,
          current_waitlist_position   |-> waitlist_position,
          confirmation_probability    |-> probability,
          probability_category        |-> _get_probability_category(probability),
          estimated_confirmation_date |->
              _estimate_confirmation_date(journey_date, probability,
                                          waitlist_position, te),
          confidence_interval         |-> _calculate_confidence_interval(probability),
          ml_model_version            |-> WAITLIST_MODEL_VERSION,
          prediction_timestamp        |-> ts ]

\* does predict_waitlist_confirmation raise on this input
predict_raises(train_number, journey_date) ==
    \/ ~IsRealDate(journey_date)
    \/ int_raises(train_number)

\* the dict predict_waitlist_confirmation returns; tf, te, ts are the clock
\* readings of _extract_features, _estimate_confirmation_date and utcnow()
predict_waitlist_confirmation(train_number, class_code, journey_date, waitlist_position, quota, tf, te, ts) ==
    LET f == _extract_features(train_number, class_code, journey_date,
                               waitlist_position, quota, tf)
        probability == _calculate_confirmation_probability(f)
    IN  [ train_number                |-> train_number,
          class_code                  |-> class_code,
          journey_date                |-> journey_date,
          current_waitlist_position   |-> waitlist_position,
          confirmation_probability    |-> probability,
          probability_category        |-> _get_probability_category(probability),
          estimated_confirmation_date |->
              _estimate_confirmation_date(journey_date, probability,
                                          waitlist_position, te),
          confidence_interval         |-> _calculate_confidence_interval(probability),
          ml_model_version            |-> WAITLIST_MODEL_VERSION,
          prediction_timestamp        |-> ts ]

----------------------------------------------------------------------------
(* Request validation (WaitlistPredictionRequest) *)

MIN_WAITLIST_POSITION == 1
MAX_WAITLIST_POSITION == 500

\* slip: a journey today rejected as well
validate_rejects_today(v, now) ==
    \/ ~IsRealDate(v)
    \/ DateOf(strptime(v)) <= DateOf(now)

\* slip: the date compared without a failed parse being noticed
validate_without_parse_error(v, now) == DateOf(strptime(v)) < DateOf(now)

\* validate_future_date with the clock reading `now`: does it raise ValueError
validate_future_date_raises(v, now) ==
    \/ ~IsRealDate(v)
    \/ DateOf(strptime(v)) < DateOf(now)

\* does constructing WaitlistPredictionRequest from the body succeed
request_valid(req, now) ==
    /\ Len(req.train_number) = 5 /\ IsDigits(req.train_number)
    /\ req.class_code \in {"SL", "3A", "2A", "1A", "CC", "EC", "2S"}
    /\ req.journey_date[1] \in 0 .. 9999
    /\ req.journey_date[2] \in 0 .. 99
    /\ req.journey_date[3] \in 0 .. 99
    /\ req.current_waitlist_position >= MIN_WAITLIST_POSITION
    /\ req.current_waitlist_position <= MAX_WAITLIST_POSITION
    /\ ~validate_future_date_raises(req.journey_date, now)

\* slip: estimated_confirmation_date declared as a required string
response_requires_date(res) ==
    /\ res.confirmation_probability >= 0
    /\ res.confirmation_probability <= PROB_ONE
    /\ res.estimated_confirmation_date # None

\* does constructing WaitlistPredictionResponse from the result succeed
response_valid(res) ==
    /\ res.confirmation_probability >= 0
    /\ res.confirmation_probability <= PROB_ONE

----------------------------------------------------------------------------
(* Inputs *)

\* the clock starts at midnight of 2024-02-27, a Tuesday
ClockStart == ymd2ord(2024, 2, 27) * TicksPerDay
ClockEnd == ClockStart + MaxClockTicks

TrainNumbers == {<<1, 2, 9, 5, 1>>}
ClassCodes == {"SL", "3A", "2A", "1A", "CC", "EC", "2S", "XX"}
Quotas == {"GENERAL"}
\* the position factor reaches its floor at position 45
Positions ==
    (0 .. DensePositions)
    \cup {44, 45, 46, MAX_WAITLIST_POSITION, MAX_WAITLIST_POSITION + 1}
JourneyDates ==
    {ord2ymd(n) : n \in (DateOf(ClockStart) - JourneyDaysBack)
                         .. (DateOf(ClockStart) + JourneyDaysAhead)}
    \cup {<<2024, 2, 30>>, <<2024, 13, 1>>}

Requests ==
    [ train_number : TrainNumbers, class_code : ClassCodes,
      journey_date : JourneyDates, current_waitlist_position : Positions,
      quota : Quotas ]

\* the clock readings a call can make: non-decreasing, starting at `from`
ReadTimes(from) ==
    {r \in [ tf : from .. Min(from + MaxDrift, ClockEnd),
             te : from .. Min(from + MaxDrift, ClockEnd),
             ts : from .. Min(from + MaxDrift, ClockEnd) ] :
        r.tf <= r.te /\ r.te <= r.ts}

----------------------------------------------------------------------------
(* State machine *)

NoRequest == [ train_number |-> <<>>, class_code |-> "", journey_date |-> None,
               current_waitlist_position |-> 0, quota |-> "" ]

\* MLService.__init__: no model loaded, the cached settings and configuration
NewService ==
    [ _models      |-> {},
      settings     |-> "Settings",
      model_config |-> [ WAITLIST_MODEL_VERSION |-> WAITLIST_MODEL_VERSION ] ]

\* the concurrent callers of one service instance
Tasks == {1, 2}

\* a task that is not inside predict_waitlist_confirmation
IdleTask ==
    [ pc |-> "idle", request |-> NoRequest, overlapped |-> FALSE,
      tf |-> 0, te |-> 0, ts |-> 0,
      features |-> None, probability |-> 0, confidence_interval |-> <<>>,
      estimated_date |-> None, result |-> None ]

Init ==
    /\ clock = ClockStart
    /\ request = NoRequest
    /\ via = "none"
    /\ reads = [ tv |-> ClockStart ]
    /\ features = None
    /\ outcome = "none"
    /\ result = None
    /\ previous = <<>>
    /\ service = NewService
    /\ tasks = [ t \in Tasks |-> IdleTask ]

\* no call is in flight
Idle == outcome = "none"

\* time passes between calls (within a call the clock readings drift)
Tick ==
    /\ Idle
    /\ clock < ClockEnd
    /\ clock' = clock + 1
    /\ UNCHANGED <<request, via, reads, features, outcome, result, previous>>
    /\ UNCHANGED <<service, tasks>>

\* the service call shared by the route and by process()
Predict(req, r) ==
    /\ features' = _extract_features(req.train_number, req.class_code,
                                     req.journey_date,
                                     req.current_waitlist_position, req.quota, r.tf)
    /\ result' = predict_waitlist_confirmation(
                     req.train_number, req.class_code, req.journey_date,
                     req.current_waitlist_position, req.quota, r.tf, r.te, r.ts)

\* the HTTPException of the route's except branch
HTTP_500 == [ status_code |-> 500, detail |-> "Waitlist prediction failed" ]

\* slip: no try/except around the service call
route_body_without_except(req, r) ==
    IF predict_raises(req.train_number, req.journey_date)
    THEN /\ outcome' = "raised"
         /\ features' = None
         /\ result' = None
    ELSE /\ Predict(req, r)
         /\ outcome' = "200"

\* the body of the route function: the service call and the response model,
\* inside try/except
RouteBody(req, r) ==
    IF predict_raises(req.train_number, req.journey_date)
    THEN /\ outcome' = "500"
         /\ features' = None
         /\ result' = HTTP_500
    ELSE LET res == predict_waitlist_confirmation(
                        req.train_number, req.class_code, req.journey_date,
                        req.current_waitlist_position, req.quota, r.tf, r.te, r.ts)
         IN  /\ features' = _extract_features(req.train_number, req.class_code,
                                              req.journey_date,
                                              req.current_waitlist_position,
                                              req.quota, r.tf)
             /\ IF response_valid(res)
                THEN outcome' = "200" /\ result' = res
                ELSE outcome' = "500" /\ result' = HTTP_500

\* POST /ml/waitlist-predictor
Route(req) ==
    /\ UNCHANGED <<previous, service, tasks>>
    /\ request' = req
    /\ via' = "route"
    /\ IF ~request_valid(req, clock)
       THEN /\ outcome' = "422"
            /\ reads' = [ tv |-> clock ]
            /\ features' = None
            /\ result' = None
            /\ clock' = clock
       ELSE \E r \in ReadTimes(clock) :
            /\ reads' = [ tv |-> clock, tf |-> r.tf, te |-> r.te, ts |-> r.ts ]
            /\ clock' = r.ts
            /\ RouteBody(req, r)

\* the route function called with a request object that skipped validation
RouteFunction(req) ==
    /\ UNCHANGED <<previous, service, tasks>>
    /\ request' = req
    /\ via' = "route function"
    /\ \E r \in ReadTimes(clock) :
        /\ reads' = [ tv |-> clock, tf |-> r.tf, te |-> r.te, ts |-> r.ts ]
        /\ clock' = r.ts
        /\ RouteBody(req, r)

\* MLService.process(data) called directly with an unvalidated body
Process(req) ==
    /\ UNCHANGED <<previous, service, tasks>>
    /\ request' = req
    /\ via' = "process"
    /\ \E r \in ReadTimes(clock) :
        /\ reads' = [ tv |-> clock, tf |-> r.tf, te |-> r.te, ts |-> r.ts ]
        /\ clock' = r.ts
        /\ IF predict_raises(req.train_number, req.journey_date)
           THEN /\ outcome' = "raised"
                /\ features' = None
                /\ result' = None
           ELSE /\ Predict(req, r)
                /\ outcome' = "returned"

\* the caller takes the response (or the exception); the call's locals are gone
Respond ==
    /\ outcome # "none"
    /\ request' = NoRequest
    /\ via' = "none"
    /\ reads' = [ tv |-> clock ]
    /\ features' = None
    /\ outcome' = "none"
    /\ result' = None
    /\ UNCHANGED <<clock, previous, service, tasks>>

\* a client posts a body to the route
PostWaitlistPredictor == Idle /\ \E req \in Requests : Route(req)

\* a caller hands a body to the service
CallProcess == Idle /\ \E req \in Requests : Process(req)

Next ==
    \/ Tick
    \/ Respond
    \/ PostWaitlistPredictor
    \/ CallProcess

Spec == Init /\ [][Next]_vars

----------------------------------------------------------------------------
(* The route reached over HTTP and called as a function *)

CallRouteFunction == Idle /\ \E req \in Requests : RouteFunction(req)

NextRoute ==
    \/ Tick
    \/ Respond
    \/ PostWaitlistPredictor
    \/ CallRouteFunction

SpecRoute == Init /\ [][NextRoute]_vars

----------------------------------------------------------------------------
(* NLPService: intent classification and relative dates.  Texts are strings;
   the texts of the model hold no digits, so the patterns for raw dates, PNR
   and passenger counts find nothing, and the entities kept are those of
   _extract_dates. *)

\* pattern in text: the pattern occurs as a substring
Contains(text, pattern) ==
    \E i \in 1 .. (Len(text) - Len(pattern) + 1) :
        SubSeq(text, i, i + Len(pattern) - 1) = pattern

AsciiUpper == "ABCDEFGHIJKLMNOPQRSTUVWXYZ"

AsciiLower == "abcdefghijklmnopqrstuvwxyz"

lower_char(c) ==
    IF \E i \in 1 .. Len(AsciiUpper) : SubSeq(AsciiUpper, i, i) = c
    THEN LET i == CHOOSE k \in 1 .. Len(AsciiUpper) : SubSeq(AsciiUpper, k, k) = c
         IN  SubSeq(AsciiLower, i, i)
    ELSE c

RECURSIVE lower(_)
\* str.lower()
lower(text) ==
    IF Len(text) = 0 THEN ""
    ELSE lower_char(SubSeq(text, 1, 1)) \o lower(SubSeq(text, 2, Len(text)))

\* _load_intent_patterns, in the order the dict is written
_intent_patterns ==
    << [ intent |-> "book_ticket",
         patterns |-> << "book", "ticket", "train", "reservation", "reserve",
                         "journey", "travel", "seat", "berth", "coach" >> ],
       [ intent |-> "check_status",
         patterns |-> << "status", "pnr", "check", "confirm", "booking",
                         "ticket status", "reservation status", "confirm ticket" >> ],
       [ intent |-> "cancel_booking",
         patterns |-> << "cancel", "refund", "cancellation", "cancel ticket",
                         "cancel booking", "refund ticket" >> ],
       [ intent |-> "get_train_info",
         patterns |-> << "train", "schedule", "timing", "arrival", "departure",
                         "train number", "route", "stops" >> ],
       [ intent |-> "check_availability",
         patterns |-> << "availability", "available", "seats", "berths", "quota",
                         "vacant", "waiting list", "confirm availability" >> ] >>

SUPPORTED_INTENTS ==
    << "book_ticket", "check_status", "cancel_booking", "get_train_info",
       "check_availability", "general_inquiry" >>

\* sum(1 for pattern in patterns if pattern in text)
matches(text, patterns) ==
    Cardinality({k \in 1 .. Len(patterns) : Contains(text, patterns[k])})

\* slip: a base of 0.4, so that one match beats the default
pattern_confidence_generous(text, patterns) ==
    Min(Pct(95), Pct(40) + (matches(text, patterns) * Pct(15)))

\* min(0.95, 0.3 + matches * 0.15)
_calculate_pattern_confidence(text, patterns) ==
    Min(Pct(95), Pct(30) + (matches(text, patterns) * Pct(15)))

\* slip: a later intent replaces the best on an equal confidence
replaces_on_tie(confidence, best_confidence) == confidence >= best_confidence

\* if confidence > best_confidence
replaces_best(confidence, best_confidence) == confidence > best_confidence

RECURSIVE classify_from(_, _, _, _)
\* the loop over self._intent_patterns.items(), from the k-th entry on
classify_from(k, text_lower, best_intent, best_confidence) ==
    IF k > Len(_intent_patterns)
    THEN [ intent |-> best_intent, confidence |-> best_confidence ]
    ELSE LET confidence == _calculate_pattern_confidence(
                               text_lower, _intent_patterns[k].patterns)
         IN  IF replaces_best(confidence, best_confidence)
             THEN classify_from(k + 1, text_lower,
                                _intent_patterns[k].intent, confidence)
             ELSE classify_from(k + 1, text_lower, best_intent, best_confidence)

\* _extract_dates with the clock reading `now`: the dict as a set of items
_extract_dates(text, now) ==
    LET text_lower == lower(text) IN
    IF Contains(text_lower, "today")
    THEN {<<"journey_date", strftime(now)>>}
    ELSE IF Contains(text_lower, "tomorrow")
    THEN {<<"journey_date", strftime(now + (1 * TicksPerDay))>>}
    ELSE IF Contains(text_lower, "day after tomorrow")
    THEN {<<"journey_date", strftime(now + (2 * TicksPerDay))>>}
    ELSE {}

\* classify_intent with the clock reading `now` of extract_entities
classify_intent(text, now) ==
    LET best == classify_from(1, lower(text), "general_inquiry", Pct(50)) IN
    [ intent     |-> best.intent,
      confidence |-> best.confidence,
      entities   |-> _extract_dates(text, now) ]

\* what users write: words and phrases, alone or put together
Phrases ==
    { "book", "ticket", "train", "booking", "status", "pnr", "cancel",
      "refund", "seats", "hello", "today", "Tomorrow", "day after tomorrow",
      "train schedule timing arrival departure",
      "Book ticket travel seat berth" }

CorePhrases == { "book", "ticket", "cancel", "status", "train", "tomorrow" }

Texts ==
    Phrases
    \cup { a \o " " \o b : a \in Phrases, b \in Phrases }
    \cup { a \o " " \o b \o " " \o c :
               a \in CorePhrases, b \in CorePhrases, c \in CorePhrases }

ClassifyIntent(text) ==
    \E now \in clock .. Min(clock + MaxDrift, ClockEnd) :
        /\ request' = [ text |-> text ]
        /\ via' = "classify_intent"
        /\ result' = classify_intent(text, now)
        /\ outcome' = "returned"
        /\ reads' = [ tv |-> clock, tn |-> now ]
        /\ clock' = now
        /\ UNCHANGED <<features, previous, service, tasks>>

ExtractDates(text) ==
    \E now \in clock .. Min(clock + MaxDrift, ClockEnd) :
        /\ request' = [ text |-> text ]
        /\ via' = "_extract_dates"
        /\ result' = _extract_dates(text, now)
        /\ outcome' = "returned"
        /\ reads' = [ tv |-> clock, tn |-> now ]
        /\ clock' = now
        /\ UNCHANGED <<features, previous, service, tasks>>

CallClassifyIntent == Idle /\ \E text \in Texts : ClassifyIntent(text)

CallExtractDates == Idle /\ \E text \in Texts : ExtractDates(text)

NextNLP ==
    \/ Tick
    \/ Respond
    \/ CallClassifyIntent
    \/ CallExtractDates

SpecNLP == Init /\ [][NextNLP]_vars

----------------------------------------------------------------------------
(* Concurrent calls of predict_waitlist_confirmation on one service instance,
   interleaved statement by statement *)

\* the arguments the concurrent callers pass
ConcurrentRequests ==
    [ train_number : TrainNumbers, class_code : {"SL", "2A"},
      journey_date : {ord2ymd(DateOf(ClockStart) + k) : k \in {1, 7}},
      current_waitlist_position : {1, 10},
      quota : Quotas ]

InFlight(t) == tasks[t].pc # "idle"

\* slip: the feature dict kept on the instance, in _models
service_keeps_features(svc, f) == [ svc EXCEPT !._models = {<<"features", f>>} ]

\* what predict_waitlist_confirmation writes to self: nothing
service_after_call(svc, f) == svc

\* the call is entered with its arguments
Begin(t, req) ==
    /\ tasks[t].pc = "idle"
    /\ tasks' = [ u \in Tasks |->
                    IF u = t
                    THEN [ IdleTask EXCEPT !.pc = "features", !.request = req,
                                           !.overlapped = \E v \in Tasks \ {t} : InFlight(v) ]
                    ELSE IF InFlight(u)
                         THEN [ tasks[u] EXCEPT !.overlapped = TRUE ]
                         ELSE tasks[u] ]
    /\ UNCHANGED <<clock, request, via, reads, features, outcome, result,
                   previous, service>>

\* features = self._extract_features(...)
ExtractFeatures(t) ==
    /\ tasks[t].pc = "features"
    /\ LET req == tasks[t].request
           f   == _extract_features(req.train_number, req.class_code,
                                    req.journey_date,
                                    req.current_waitlist_position, req.quota, clock)
       IN  /\ tasks' = [ tasks EXCEPT ![t].features = f, ![t].tf = clock,
                                       ![t].pc = "probability" ]
           /\ service' = service_after_call(service, f)
    /\ UNCHANGED <<clock, request, via, reads, features, outcome, result, previous>>

\* probability = self._calculate_confirmation_probability(features)
CalculateProbability(t) ==
    /\ tasks[t].pc = "probability"
    /\ tasks' = [ tasks EXCEPT
                    ![t].probability =
                        _calculate_confirmation_probability(tasks[t].features),
                    ![t].pc = "interval" ]
    /\ UNCHANGED <<clock, request, via, reads, features, outcome, result,
                   previous, service>>

\* confidence_interval = self._calculate_confidence_interval(probability)
CalculateInterval(t) ==
    /\ tasks[t].pc = "interval"
    /\ tasks' = [ tasks EXCEPT
                    ![t].confidence_interval =
                        _calculate_confidence_interval(tasks[t].probability),
                    ![t].pc = "date" ]
    /\ UNCHANGED <<clock, request, via, reads, features, outcome, result,
                   previous, service>>

\* estimated_date = self._estimate_confirmation_date(...)
EstimateDate(t) ==
    /\ tasks[t].pc = "date"
    /\ tasks' = [ tasks EXCEPT
                    ![t].estimated_date =
                        _estimate_confirmation_date(
                            tasks[t].request.journey_date, tasks[t].probability,
                            tasks[t].request.current_waitlist_position, clock),
                    ![t].te = clock,
                    ![t].pc = "return" ]
    /\ UNCHANGED <<clock, request, via, reads, features, outcome, result,
                   previous, service>>

\* return {...}: the dict is built from the locals, the configuration and utcnow()
BuildResult(t) ==
    /\ tasks[t].pc = "return"
    /\ tasks' = [ tasks EXCEPT
                    ![t].result =
                        [ train_number                |-> tasks[t].request.train_number,
                          class_code                  |-> tasks[t].request.class_code,
                          journey_date                |-> tasks[t].request.journey_date,
                          current_waitlist_position   |->
                              tasks[t].request.current_waitlist_position,
                          confirmation_probability    |-> tasks[t].probability,
                          probability_category        |->
                              _get_probability_category(tasks[t].probability),
                          estimated_confirmation_date |-> tasks[t].estimated_date,
                          confidence_interval         |-> tasks[t].confidence_interval,
                          ml_model_version            |->
                              service.model_config.WAITLIST_MODEL_VERSION,
                          prediction_timestamp        |-> clock ],
                    ![t].ts = clock,
                    ![t].pc = "done" ]
    /\ UNCHANGED <<clock, request, via, reads, features, outcome, result,
                   previous, service>>

\* the caller has the dict; the locals of the call are gone
TaskReturns(t) ==
    /\ tasks[t].pc = "done"
    /\ tasks' = [ tasks EXCEPT ![t] = IdleTask ]
    /\ UNCHANGED <<clock, request, via, reads, features, outcome, result,
                   previous, service>>

TaskBegins == \E t \in Tasks, req \in ConcurrentRequests : Begin(t, req)

TaskExtractsFeatures == \E t \in Tasks : ExtractFeatures(t)

TaskCalculatesProbability == \E t \in Tasks : CalculateProbability(t)

TaskCalculatesInterval == \E t \in Tasks : CalculateInterval(t)

TaskEstimatesDate == \E t \in Tasks : EstimateDate(t)

TaskBuildsResult == \E t \in Tasks : BuildResult(t)

TaskEnds == \E t \in Tasks : TaskReturns(t)

NextConcurrent ==
    \/ Tick
    \/ TaskBegins
    \/ TaskExtractsFeatures
    \/ TaskCalculatesProbability
    \/ TaskCalculatesInterval
    \/ TaskEstimatesDate
    \/ TaskBuildsResult
    \/ TaskEnds

SpecConcurrent == Init /\ [][NextConcurrent]_vars

----------------------------------------------------------------------------
(* Two calls in a row, the caller keeping the first answer *)

\* the bodies the caller repeats
TwiceTrainNumbers == {<<1, 2, 9, 5, 1>>, <<1, 2, 0, 0, 2>>}

TwiceQuotas == {"GENERAL", "TATKAL"}

TwiceRequests ==
    [ train_number : TwiceTrainNumbers, class_code : {"SL", "XX"},
      journey_date : {ord2ymd(DateOf(ClockStart) + k) : k \in {0, 1, 7}},
      current_waitlist_position : {1, 10},
      quota : TwiceQuotas ]

\* the caller takes the response and keeps it
RespondKeep ==
    /\ outcome # "none"
    /\ previous' = << [ request |-> request, reads |-> reads,
                        outcome |-> outcome, result |-> result ] >>
    /\ request' = NoRequest
    /\ via' = "none"
    /\ reads' = [ tv |-> clock ]
    /\ features' = None
    /\ outcome' = "none"
    /\ result' = None
    /\ UNCHANGED <<clock, service, tasks>>

PostAgain == Idle /\ \E req \in TwiceRequests : Route(req)

ProcessAgain == Idle /\ \E req \in TwiceRequests : Process(req)

NextTwice ==
    \/ Tick
    \/ RespondKeep
    \/ PostAgain
    \/ ProcessAgain

SpecTwice == Init /\ [][NextTwice]_vars

----------------------------------------------------------------------------
(* The helper methods called on their own, on probabilities of every band *)

\* every whole percent from 0.00 to 1.00 and its two neighbours
Probabilities == {(k * Pct(1)) + e : k \in 0 .. 100, e \in {-1, 0, 1}}

GetProbabilityCategory(p) ==
    /\ request' = [ probability |-> p ]
    /\ via' = "_get_probability_category"
    /\ result' = _get_probability_category(p)
    /\ outcome' = "unit"
    /\ reads' = [ tv |-> clock ]
    /\ UNCHANGED <<clock, features, previous, service, tasks>>

CalculateConfidenceInterval(p) ==
    /\ request' = [ probability |-> p ]
    /\ via' = "_calculate_confidence_interval"
    /\ result' = _calculate_confidence_interval(p)
    /\ outcome' = "unit"
    /\ reads' = [ tv |-> clock ]
    /\ UNCHANGED <<clock, features, previous, service, tasks>>

\* probabilities on and next to the thresholds of _estimate_confirmation_date
EstimateProbabilities ==
    {Pct(5), Pct(95)}
    \cup {Pct(k) + e : k \in {30, 60, 80}, e \in {-1, 0, 1}}

EstimatePositions == {1, 4, 5, 10, 20, 29, 30, 31, 45, MAX_WAITLIST_POSITION}

EstimateConfirmationDate(journey_date, p, pos, now) ==
    /\ request' = [ journey_date |-> journey_date, probability |-> p,
                    waitlist_position |-> pos ]
    /\ via' = "_estimate_confirmation_date"
    /\ result' = _estimate_confirmation_date(journey_date, p, pos, now)
    /\ outcome' = "unit"
    /\ reads' = [ tv |-> clock, te |-> now ]
    /\ clock' = now
    /\ UNCHANGED <<features, previous, service, tasks>>

\* floats 0.2 (0x1.999999999999ap-3), 0.9 (0x1.ccccccccccccdp-1),
\* 0.95 (0x1.e666666666666p-1) and 0.378 (0x1.83126e978d4fep-2)
Float_0_2 == <<53687091, 107374184>>

Float_0_9 == <<241591910, 214748368>>

Float_0_95 == <<255013683, 107374176>>

Float_0_378 == <<101468602, 197568496>>

\* the probability 0.7 * 0.98 * 0.99 * 1.1 * 1.0 = 0.747054
\* (0x1.7e7ddca4b124dp-1) of SL, position 1, days_to_journey -1, weekday
Float_SL_1 == <<200535781, 78718160>>

\* the probability 0.7 * 0.8 * 1.05 * 0.9 * 1.0 = 0.5292
\* (0x1.0ef34d6a161e5p-1) of 3A, position 10, days_to_journey 5, weekday
Float_3A_10 == <<142056043, 169221712>>

\* float probabilities: m / 128 for the m between the clamps, the clamps,
\* 0.1 and 0.9 with their neighbours, and values the estimator produces
FloatProbabilities ==
    {<<m * (2^21), 0>> : m \in 7 .. 121}
    \cup {Float_0_05, Float_0_95, Float_0_378, Float_SL_1, Float_3A_10}
    \cup {Float_0_1, BigSub(Float_0_1, <<0, 2>>), BigAdd(Float_0_1, <<0, 2>>)}
    \cup {Float_0_9, BigSub(Float_0_9, <<0, 16>>), BigAdd(Float_0_9, <<0, 16>>)}

CalculateConfidenceIntervalFloat(p) ==
    /\ request' = [ probability |-> p ]
    /\ via' = "_calculate_confidence_interval (float)"
    /\ result' = _calculate_confidence_interval_float(p)
    /\ outcome' = "unit"
    /\ reads' = [ tv |-> clock ]
    /\ UNCHANGED <<clock, features, previous, service, tasks>>

CallCalculateConfidenceIntervalFloat ==
    Idle /\ \E p \in FloatProbabilities : CalculateConfidenceIntervalFloat(p)

CallGetProbabilityCategory == Idle /\ \E p \in Probabilities : GetProbabilityCategory(p)

CallCalculateConfidenceInterval ==
    Idle /\ \E p \in Probabilities : CalculateConfidenceInterval(p)

CallEstimateConfirmationDate ==
    /\ Idle
    /\ \E journey_date \in {j \in JourneyDates : IsRealDate(j)},
          p \in EstimateProbabilities, pos \in EstimatePositions,
          now \in clock .. ClockEnd :
           EstimateConfirmationDate(journey_date, p, pos, now)

NextUnit ==
    \/ Respond
    \/ CallGetProbabilityCategory
    \/ CallCalculateConfidenceInterval
    \/ CallEstimateConfirmationDate
    \/ CallCalculateConfidenceIntervalFloat

SpecUnit == Init /\ [][NextUnit]_vars

----------------------------------------------------------------------------
(* The last call, as the claims speak of it *)

\* a prediction was returned
Returned == outcome \in {"200", "returned"}

\* a prediction was returned for a request that passed validation
ValidReturned == outcome = "200"

----------------------------------------------------------------------------
(* Claims about the prediction of the call in flight *)

\* the valid positions the model explores
ValidPositions ==
    {w \in Positions : w >= MIN_WAITLIST_POSITION /\ w <= MAX_WAITLIST_POSITION}

\* the probability the request in flight would get with waitlist position w,
\* everything else and the clock reading being the same: of the features only
\* waitlist_position depends on the position
ProbabilityAt(w) ==
    _calculate_confirmation_probability([features EXCEPT !.waitlist_position = w])

\* the candidate date of _estimate_confirmation_date, before the past-date check
CandidateDt ==
    strptime(request.journey_date)
    - (days_before(result.confirmation_probability,
                   request.current_waitlist_position) * TicksPerDay)

\* C1: every request accepted by validation gets a confirmation_probability
\* between 0.05 and 0.95, whatever the clock reads.
C1_ProbabilityInRange ==
    ValidReturned =>
        /\ result.confirmation_probability >= Pct(5)
        /\ result.confirmation_probability <= Pct(95)

\* a valid request whose raw product is below 0.05 and was clamped up to it
C1_Witness ==
    /\ ValidReturned
    /\ raw_probability(features) < Pct(5)
    /\ result.confirmation_probability = Pct(5)

\* C2: for every valid request the confidence interval contains the
\* probability and lies within [0.0, 1.0].
C2_IntervalBrackets ==
    ValidReturned =>
        /\ result.confidence_interval[1] <= result.confirmation_probability
        /\ result.confirmation_probability <= result.confidence_interval[2]
        /\ result.confidence_interval[1] >= 0
        /\ result.confidence_interval[2] <= PROB_ONE

\* a valid request whose lower bound p - 0.10 was clamped to 0.0
C2_Witness ==
    /\ ValidReturned
    /\ result.confirmation_probability < Pct(10)
    /\ result.confidence_interval[1] = 0

\* C3: of two valid requests evaluated at the same clock reading that differ
\* only in waitlist_position, the one with the larger position never gets the
\* larger confirmation_probability.
C3_MonotoneInPosition ==
    ValidReturned =>
        \A w \in ValidPositions :
            w > request.current_waitlist_position
                => ProbabilityAt(w) <= result.confirmation_probability

\* a valid request that a larger position would give a strictly smaller probability
C3_Witness ==
    /\ ValidReturned
    /\ \E w \in ValidPositions :
           /\ w > request.current_waitlist_position
           /\ ProbabilityAt(w) < result.confirmation_probability

\* C4: whenever the returned confirmation_probability is below 0.3 the
\* returned estimated_confirmation_date is None.
C4_LowProbabilityNoDate ==
    Returned =>
        (result.confirmation_probability < Pct(30)
            => result.estimated_confirmation_date = None)

\* a probability below 0.3 whose candidate date was not in the past
C4_Witness ==
    /\ Returned
    /\ result.confirmation_probability < Pct(30)
    /\ result.confirmation_probability >= Pct(20)
    /\ CandidateDt >= reads.te
    /\ result.estimated_confirmation_date = None

\* C5: a returned estimated_confirmation_date is never strictly before the
\* calendar date the clock showed when the call read it.
C5_DateNotBeforeEvaluation ==
    (Returned /\ result.estimated_confirmation_date # None) =>
        /\ DateOf(strptime(result.estimated_confirmation_date)) >= DateOf(reads.tv)
        /\ DateOf(strptime(result.estimated_confirmation_date)) >= DateOf(reads.tf)
        /\ DateOf(strptime(result.estimated_confirmation_date)) >= DateOf(reads.te)

\* an estimated date equal to the evaluation date is returned
C5_Witness ==
    /\ Returned
    /\ result.estimated_confirmation_date # None
    /\ DateOf(strptime(result.estimated_confirmation_date)) = DateOf(reads.te)

\* the class factors as the specification tabulates them, in hundredths
TabulatedClasses == {"SL", "3A", "2A", "1A", "CC", "EC", "2S"}

TabulatedClassFactor(c) ==
    CASE c = "SL" -> 110 [] c = "3A" -> 90 [] c = "2A" -> 80 [] c = "1A" -> 70
      [] c \in {"CC", "EC", "2S"} -> 100

\* C9: confirmation_probability = clamp(0.70 * max(0.1, 1 - 0.02 * position)
\* * min(1.2, 1 + 0.01 * days_to_journey) * class_factor * weekend_factor,
\* 0.05, 0.95) with class_factor SL=1.1, 3A=0.9, 2A=0.8, 1A=0.7, CC=EC=2S=1.0;
\* the lead-time factor has no lower floor.  (Class codes outside the table
\* are the subject of C10.)
C9_ProbabilityFormula ==
    (Returned /\ request.class_code \in TabulatedClasses) =>
        result.confirmation_probability =
            Max(Pct(5), Min(Pct(95),
                7 * Max(10, 100 - (2 * request.current_waitlist_position))
                  * Min(120, 100 + features.days_to_journey)
                  * TabulatedClassFactor(request.class_code)
                  * (IF features.is_weekend THEN 90 ELSE 100)))

\* a negative days_to_journey is accepted and lowers an unclamped probability
C9_Witness ==
    /\ Returned
    /\ request.class_code \in TabulatedClasses
    /\ features.days_to_journey < 0
    /\ result.confirmation_probability > Pct(5)
    /\ result.confirmation_probability
           < 7 * Max(10, 100 - (2 * request.current_waitlist_position)) * 100
               * TabulatedClassFactor(request.class_code)
               * (IF features.is_weekend THEN 90 ELSE 100)

\* the estimator is called with a class code outside the fixed set, on an
\* input nothing else is wrong with
UnknownClassCall ==
    /\ via = "process"
    /\ request.class_code \notin TabulatedClasses
    /\ IsRealDate(request.journey_date)
    /\ ~int_raises(request.train_number)

\* C10: called with a class_code outside {SL,3A,2A,1A,CC,EC,2S} the estimator
\* does not raise and applies the default class factor 1.0.
C10_UnknownClassDefault ==
    UnknownClassCall =>
        /\ outcome = "returned"
        /\ class_factor(features) = 100

----------------------------------------------------------------------------
(* Claims about validation and errors *)

\* the service was invoked: the call read the clock in _extract_features
EstimatorRan == "tf" \in DOMAIN reads

\* a call through the route has ended
RouteEnded == via = "route" /\ outcome # "none"

PositionInRange ==
    /\ request.current_waitlist_position >= 1
    /\ request.current_waitlist_position <= 500

\* the journey date is a real date; its day ordinal
JourneyDay == DateOf(strptime(request.journey_date))

\* C11: validation rejects, before the estimator is invoked, every request
\* whose waitlist position is outside 1..500 or whose journey_date is before
\* today's date, and accepts a journey_date equal to today's date; the
\* estimator runs only on requests that passed validation.
C11_ValidationBeforeEstimator ==
    RouteEnded =>
        /\ ~PositionInRange => (outcome = "422" /\ ~EstimatorRan)
        /\ (IsRealDate(request.journey_date) /\ JourneyDay < DateOf(reads.tv))
               => (outcome = "422" /\ ~EstimatorRan)
        /\ ( /\ IsRealDate(request.journey_date)
             /\ JourneyDay = DateOf(reads.tv)
             /\ PositionInRange
             /\ request.class_code \in TabulatedClasses )
               => (outcome # "422" /\ EstimatorRan)
        /\ EstimatorRan
               => /\ PositionInRange
                  /\ IsRealDate(request.journey_date)
                  /\ JourneyDay >= DateOf(reads.tv)

\* a journey today passed validation and the estimator ran
C11_Witness ==
    /\ RouteEnded
    /\ IsRealDate(request.journey_date)
    /\ JourneyDay = DateOf(reads.tv)
    /\ EstimatorRan
    /\ outcome = "200"

CategoryLabels == {"Very Low", "Low", "Medium", "High", "Very High"}

\* C12: for every request that passed validation the prediction completes
\* without raising; every field of the result is present except
\* estimated_confirmation_date, which is None or a date.
C12_ValidRequestNeverFails ==
    (RouteEnded /\ outcome # "422") =>
        /\ outcome = "200"
        /\ result.train_number = request.train_number
        /\ result.class_code = request.class_code
        /\ result.journey_date = request.journey_date
        /\ result.current_waitlist_position = request.current_waitlist_position
        /\ result.confirmation_probability \in Int
        /\ result.probability_category \in CategoryLabels
        /\ Len(result.confidence_interval) = 2
        /\ result.ml_model_version = "v2.0.0"
        /\ result.prediction_timestamp \in Int
        /\ \/ result.estimated_confirmation_date = None
           \/ IsRealDate(result.estimated_confirmation_date)

\* a valid request whose date estimate was dropped as past, without any error
C12_Witness ==
    /\ RouteEnded
    /\ outcome = "200"
    /\ result.confirmation_probability >= Pct(30)
    /\ result.estimated_confirmation_date = None

\* C13: a journey_date that names no real calendar date ends in a client
\* error, never in a server error and never in a prediction.
C13_UnparseableDateClientError ==
    (RouteEnded /\ ~IsRealDate(request.journey_date)) =>
        (outcome = "422" /\ ~EstimatorRan)

\* 2024-02-30 matches the digit pattern, names no date and is answered 422
C13_Witness ==
    /\ RouteEnded
    /\ request.journey_date = <<2024, 2, 30>>
    /\ PositionInRange
    /\ request.class_code \in TabulatedClasses
    /\ outcome = "422"

\* C14: days_to_journey is the whole-day difference between the journey date
\* and the evaluation date whatever the time of day: 0 for a journey today.
C14_DaysToJourneyIsDateDifference ==
    Returned => features.days_to_journey = JourneyDay - DateOf(reads.tf)

----------------------------------------------------------------------------
(* Claims about the estimated confirmation date *)

EstimateCall == via = "_estimate_confirmation_date" /\ outcome = "unit"

\* the tiers as the claim words them
TierDaysBefore(p, pos) ==
    IF p > Pct(80) THEN Min(15, pos \div 2)
    ELSE IF p > Pct(60) THEN Min(10, pos \div 3)
    ELSE Min(5, pos \div 5)

\* C15: with probability >= 0.3 a returned date is journey_date minus
\* days_before, days_before taken from the tier the probability lies strictly
\* above: probability exactly 0.8 or 0.6 uses the lower tier.
C15_DateTiersStrict ==
    (EstimateCall /\ request.probability >= Pct(30) /\ result # None) =>
        result = strftime(strptime(request.journey_date)
                          - (TierDaysBefore(request.probability,
                                            request.waitlist_position)
                             * TicksPerDay))

\* probability exactly 0.8 at position 10: 3 days before, not 5
C15_Witness ==
    /\ EstimateCall
    /\ request.probability = Pct(80)
    /\ request.waitlist_position = 10
    /\ result # None
    /\ DateOf(strptime(result)) = DateOf(strptime(request.journey_date)) - 3

\* C16: with probability >= 0.3 the candidate date is dropped only when it is
\* strictly before the evaluation date; a candidate equal to the evaluation
\* date is returned.
C16_CandidateTodayReturned ==
    (Returned /\ result.confirmation_probability >= Pct(30)) =>
        (result.estimated_confirmation_date = None
            <=> DateOf(CandidateDt) < DateOf(reads.te))

\* C17: a returned estimated_confirmation_date of a valid request is on or
\* before the journey_date.
C17_DateNotAfterJourney ==
    (ValidReturned /\ result.estimated_confirmation_date # None) =>
        DateOf(strptime(result.estimated_confirmation_date)) <= JourneyDay

\* a valid request whose estimated date is strictly before the journey
C17_Witness ==
    /\ ValidReturned
    /\ result.estimated_confirmation_date # None
    /\ DateOf(strptime(result.estimated_confirmation_date)) < JourneyDay

----------------------------------------------------------------------------
(* Claims about the width of the confidence interval *)

FloatIntervalCall ==
    via = "_calculate_confidence_interval (float)" /\ outcome = "unit"

\* 0.1 <= p <= 0.9 as the floats compare
NoBoundClamps ==
    /\ BigLeq(Float_0_1, request.probability)
    /\ BigLeq(request.probability, Float_0_9)

\* the width upper - lower, as the float subtraction gives it
IntervalWidth == float_sub(result[2], result[1])

\* 2^-54, half the spacing of the floats below 1.0
HalfUlp == <<0, 8>>

\* C18 as stated: the interval is (max(0, p - 0.10), min(1, p + 0.10)), its
\* width is exactly 0.2 whenever 0.1 <= p <= 0.9, and is smaller than 0.2
\* only when a bound was clamped.
C18_WidthExactly ==
    FloatIntervalCall =>
        /\ NoBoundClamps => IntervalWidth = Float_0_2
        /\ BigLess(IntervalWidth, Float_0_2) => ~NoBoundClamps

\* C18, amended: the bounds are the floats nearest to p - 0.10 and p + 0.10,
\* clamped to [0, 1]; whenever 0.1 <= p <= 0.9 the width is within 2^-54 of
\* the float 0.2, and it is smaller than 0.2 by more than 2^-54 only when a
\* bound was clamped.
C18_WidthWithinRounding ==
    FloatIntervalCall =>
        /\ BigLeq(Float_0_0, result[1])
        /\ BigLeq(result[2], Float_1_0)
        /\ NoBoundClamps =>
               /\ BigLeq(BigSub(Float_0_2, HalfUlp), IntervalWidth)
               /\ BigLeq(IntervalWidth, BigAdd(Float_0_2, HalfUlp))
        /\ BigLess(IntervalWidth, BigSub(Float_0_2, HalfUlp)) => ~NoBoundClamps

\* the estimator's 0.747054: no bound clamped, width 2^-54 below 0.2
C18_Witness ==
    /\ FloatIntervalCall
    /\ request.probability = Float_SL_1
    /\ NoBoundClamps
    /\ IntervalWidth = BigSub(Float_0_2, HalfUlp)

----------------------------------------------------------------------------
(* Claims about single factors *)

\* C19: for waitlist_position 500 and every position >= 45 the position
\* factor is 0.1 and the confirmation_probability lies in [0.05, 0.15], for
\* every class, journey date and clock value.
C19_PositionFactorFloor ==
    (Returned /\ request.current_waitlist_position >= 45) =>
        /\ position_factor(features) = 10
        /\ result.confirmation_probability >= Pct(5)
        /\ result.confirmation_probability <= Pct(15)

\* position 500 with a probability above the lower clamp
C19_Witness ==
    /\ ValidReturned
    /\ request.current_waitlist_position = 500
    /\ result.confirmation_probability > Pct(5)

\* 2023-01-07 was a Saturday
KnownSaturday == ymd2ord(2023, 1, 7)

JourneyOnWeekend == (JourneyDay - KnownSaturday) % 7 \in {0, 1}

\* C20: is_weekend is true exactly when journey_date is a Saturday or a
\* Sunday, the weekend factor is 0.9 then and 1.0 otherwise, and the product
\* before clamping is exactly 0.9 times that of a weekday request with the
\* same position, lead-time and class factors.
C20_WeekendFactor ==
    Returned =>
        /\ features.is_weekend <=> JourneyOnWeekend
        /\ weekend_factor(features) = IF JourneyOnWeekend THEN 90 ELSE 100
        /\ JourneyOnWeekend =>
               LET weekday_raw == raw_probability([features EXCEPT !.is_weekend = FALSE])
               IN  /\ weekday_raw % 10 = 0
                   /\ raw_probability(features) = (weekday_raw \div 10) * 9

\* a Saturday journey whose product was not clamped
C20_Witness ==
    /\ ValidReturned
    /\ (JourneyDay - KnownSaturday) % 7 = 0
    /\ features.is_weekend
    /\ result.confirmation_probability = raw_probability(features)

\* the route function has ended, after validation or without it
RouteBodyEnded ==
    /\ via \in {"route", "route function"}
    /\ outcome \notin {"none", "422"}

\* C27: in the route any exception raised while the service computes the
\* prediction or while the response model is built ends in an HTTP 500 with
\* detail 'Waitlist prediction failed'; no partial prediction is returned and
\* a successful outcome carries a confirmation_probability within [0.0, 1.0].
C27_ExceptionsBecome500 ==
    RouteBodyEnded =>
        /\ outcome \in {"200", "500"}
        /\ predict_raises(request.train_number, request.journey_date)
               => outcome = "500"
        /\ outcome = "500" =>
               /\ DOMAIN result = {"status_code", "detail"}
               /\ result.status_code = 500
               /\ result.detail = "Waitlist prediction failed"
        /\ outcome = "200" =>
               /\ result.confirmation_probability >= 0
               /\ result.confirmation_probability <= PROB_ONE
               /\ result.train_number = request.train_number

\* strptime raised on 2024-02-30 inside the service and the caller got a 500
C27_Witness ==
    /\ via = "route function"
    /\ request.journey_date = <<2024, 2, 30>>
    /\ outcome = "500"
    /\ result.detail = "Waitlist prediction failed"

----------------------------------------------------------------------------
(* Claims about the NLP service *)

ClassifyCall == via = "classify_intent" /\ outcome = "returned"

\* the number of keywords of the k-th intent that the lowered text contains
KeywordMatches(k) == matches(lower(request.text), _intent_patterns[k].patterns)

\* the keyword-match confidence of the k-th intent for the text
KeywordConfidence(k) ==
    _calculate_pattern_confidence(lower(request.text), _intent_patterns[k].patterns)

\* C28: classify_intent returns a confidence in [0.5, 0.95] and one of the
\* six supported intents; the intent is general_inquiry with confidence
\* exactly 0.5 unless some intent has at least 2 matching keywords.
C28_IntentAndConfidenceRange ==
    ClassifyCall =>
        /\ result.confidence >= Pct(50)
        /\ result.confidence <= Pct(95)
        /\ \E i \in 1 .. Len(SUPPORTED_INTENTS) : result.intent = SUPPORTED_INTENTS[i]
        /\ (result.intent = "general_inquiry" /\ result.confidence = Pct(50))
               <=> ~(\E k \in 1 .. Len(_intent_patterns) : KeywordMatches(k) >= 2)

\* one keyword of an intent matched, none matched twice: the default stays
C28_Witness ==
    /\ ClassifyCall
    /\ \E k \in 1 .. Len(_intent_patterns) : KeywordMatches(k) = 1
    /\ \A k \in 1 .. Len(_intent_patterns) : KeywordMatches(k) < 2
    /\ result.intent = "general_inquiry"
    /\ result.confidence = Pct(50)

ExtractDatesCall == via = "_extract_dates" /\ outcome = "returned"

\* the dict holds journey_date = the date `days` days after the clock reading
JourneyDateIs(days) ==
    result = {<<"journey_date", ord2ymd(DateOf(reads.tn) + days)>>}

\* C30: _extract_dates maps each relative-date phrase to its own offset:
\* 'today' gives today, 'tomorrow' today + 1 day and 'day after tomorrow'
\* today + 2 days.
C30_RelativeDateOffsets ==
    ExtractDatesCall =>
        LET text_lower == lower(request.text) IN
        /\ Contains(text_lower, "today") => JourneyDateIs(0)
        /\ ( /\ Contains(text_lower, "day after tomorrow")
             /\ ~Contains(text_lower, "today") ) => JourneyDateIs(2)
        /\ ( /\ Contains(text_lower, "tomorrow")
             /\ ~Contains(text_lower, "day after tomorrow")
             /\ ~Contains(text_lower, "today") ) => JourneyDateIs(1)

----------------------------------------------------------------------------
(* Claims about concurrent calls *)

\* what the call of task t returns when it runs alone with the same clock
\* readings
AloneResult(t) ==
    predict_waitlist_confirmation(
        tasks[t].request.train_number, tasks[t].request.class_code,
        tasks[t].request.journey_date,
        tasks[t].request.current_waitlist_position, tasks[t].request.quota,
        tasks[t].tf, tasks[t].te, tasks[t].ts)

\* C21: a prediction call leaves the fields of the service unchanged, and
\* under any interleaving of concurrent calls each call's probability,
\* category, interval and estimated date are those it gets when run alone at
\* the same clock values.
C21_ConcurrentCallsIndependent ==
    /\ service = NewService
    /\ \A t \in Tasks :
           tasks[t].pc = "done" =>
               /\ tasks[t].result.confirmation_probability
                      = AloneResult(t).confirmation_probability
               /\ tasks[t].result.probability_category
                      = AloneResult(t).probability_category
               /\ tasks[t].result.confidence_interval
                      = AloneResult(t).confidence_interval
               /\ tasks[t].result.estimated_confirmation_date
                      = AloneResult(t).estimated_confirmation_date

\* two calls that overlapped ended with different probabilities
C21_Witness ==
    /\ tasks[1].pc = "done"
    /\ tasks[2].pc = "done"
    /\ tasks[1].overlapped
    /\ tasks[2].overlapped
    /\ tasks[1].result.confirmation_probability
           # tasks[2].result.confirmation_probability
    /\ tasks[1].result.estimated_confirmation_date # None

----------------------------------------------------------------------------
(* Claims about what validated requests can reach *)

\* C22: for every request accepted by validation days_to_journey is >= 0 and
\* the lead-time factor is >= 1.0.
C22_ValidLeadTimeNonNegative ==
    ValidReturned =>
        /\ features.days_to_journey >= 0
        /\ days_factor(features) >= 100

\* C24 as stated: some valid request, evaluated now or later, has a product
\* above 0.95 and gets a confirmation_probability of exactly 0.95.
C24_UpperClampReachable ==
    \E req \in Requests, now \in clock .. ClockEnd :
        /\ request_valid(req, now)
        /\ LET f == _extract_features(req.train_number, req.class_code,
                                      req.journey_date,
                                      req.current_waitlist_position, req.quota, now)
           IN  /\ raw_probability(f) > Pct(95)
               /\ _calculate_confirmation_probability(f) = Pct(95)

\* 0.70 * 0.98 * 1.2 * 1.1 * 1.0: position 1, 20 days or more ahead, SL, weekday
MaxValidRaw == base_prob * 98 * 120 * 110 * 100

\* C24, amended: the product of a valid request is at most
\* 0.70 * 0.98 * 1.2 * 1.1 = 0.90552, so the upper clamp never acts and the
\* confirmation_probability is never 0.95.
C24_UpperClampUnreachable ==
    ValidReturned =>
        /\ raw_probability(features) <= MaxValidRaw
        /\ result.confirmation_probability <= MaxValidRaw
        /\ result.confirmation_probability < Pct(95)

\* a valid request that attains the largest product
C24_Witness ==
    /\ ValidReturned
    /\ request.current_waitlist_position = 1
    /\ request.class_code = "SL"
    /\ features.days_to_journey >= 20
    /\ result.confirmation_probability = MaxValidRaw

\* C25: a returned estimated_confirmation_date of a valid request is at most
\* 5 days before the journey_date, the caps 15 and 10 never being the binding
\* term, and from waitlist_position 34 on the probability is below 0.3 and
\* the date is None.
C25_DateAtMostFiveDaysBefore ==
    ValidReturned =>
        /\ result.estimated_confirmation_date # None =>
               JourneyDay - DateOf(strptime(result.estimated_confirmation_date)) <= 5
        /\ result.confirmation_probability > Pct(80) =>
               request.current_waitlist_position \div 2 < 15
        /\ ( /\ result.confirmation_probability > Pct(60)
             /\ result.confirmation_probability <= Pct(80) ) =>
               request.current_waitlist_position \div 3 < 10
        /\ request.current_waitlist_position >= 34 =>
               /\ result.confirmation_probability < Pct(30)
               /\ result.estimated_confirmation_date = None

\* position 33 still gets a date, 5 days before the journey
C25_Witness ==
    /\ ValidReturned
    /\ request.current_waitlist_position = 33
    /\ result.estimated_confirmation_date # None
    /\ JourneyDay - DateOf(strptime(result.estimated_confirmation_date)) = 5

\* C26: on every result of a valid request the category and the date tier
\* agree: 'Very High' goes with days_before = min(15, position // 2) and
\* 'High' with min(10, position // 3); no valid request has a probability of
\* exactly 0.8 or 0.6.
C26_CategoryAgreesWithTier ==
    ValidReturned =>
        /\ result.confirmation_probability # Pct(80)
        /\ result.confirmation_probability # Pct(60)
        /\ result.probability_category = "Very High" =>
               /\ result.confirmation_probability > Pct(80)
               /\ result.estimated_confirmation_date # None =>
                      DateOf(strptime(result.estimated_confirmation_date))
                          = JourneyDay - Min(15, request.current_waitlist_position \div 2)
        /\ result.probability_category = "High" =>
               /\ result.confirmation_probability > Pct(60)
               /\ result.confirmation_probability < Pct(80)
               /\ result.estimated_confirmation_date # None =>
                      DateOf(strptime(result.estimated_confirmation_date))
                          = JourneyDay - Min(10, request.current_waitlist_position \div 3)

\* 'Very High' at position 4: the date is 2 days before, not 1 or 0
C26_Witness ==
    /\ ValidReturned
    /\ result.probability_category = "Very High"
    /\ request.current_waitlist_position = 4
    /\ result.estimated_confirmation_date # None
    /\ DateOf(strptime(result.estimated_confirmation_date)) = JourneyDay - 2

----------------------------------------------------------------------------
(* Claims about two calls in a row *)

\* this call and the one before it both returned a prediction for the same
\* (train_number, class_code, journey_date, waitlist_position, quota)
SameInputsTwice ==
    /\ previous # <<>>
    /\ Returned
    /\ previous[1].outcome \in {"200", "returned"}
    /\ previous[1].request = request

SameButQuotaAndTrain ==
    /\ previous # <<>>
    /\ Returned
    /\ previous[1].outcome \in {"200", "returned"}
    /\ previous[1].request.class_code = request.class_code
    /\ previous[1].request.journey_date = request.journey_date
    /\ previous[1].request.current_waitlist_position
           = request.current_waitlist_position
    /\ previous[1].reads.tf = reads.tf
    /\ previous[1].reads.te = reads.te

\* C23: two requests evaluated at the same clock value that differ only in
\* quota and/or train_number get the same confirmation_probability,
\* probability_category, confidence_interval and estimated_confirmation_date.
C23_QuotaAndTrainDoNotInterfere ==
    SameButQuotaAndTrain =>
        /\ result.confirmation_probability
               = previous[1].result.confirmation_probability
        /\ result.probability_category = previous[1].result.probability_category
        /\ result.confidence_interval = previous[1].result.confidence_interval
        /\ result.estimated_confirmation_date
               = previous[1].result.estimated_confirmation_date

\* two answers at the same instants, for another train and another quota
C23_Witness ==
    /\ SameButQuotaAndTrain
    /\ previous[1].request.quota # request.quota
    /\ previous[1].request.train_number # request.train_number
    /\ result.train_number # previous[1].result.train_number
    /\ result.confirmation_probability > Pct(5)

----------------------------------------------------------------------------
(* Claims about the helper methods *)

CategoryCall == via = "_get_probability_category" /\ outcome = "unit"

\* C7: the category is Very High from 0.8, High from 0.6, Medium from 0.4,
\* Low from 0.2 and Very Low below; a probability equal to a threshold falls
\* in the upper band.
C7_CategoryBands ==
    CategoryCall =>
        LET p == request.probability IN
        /\ (result = "Very High") <=> (p >= Pct(80))
        /\ (result = "High")      <=> (p >= Pct(60) /\ p < Pct(80))
        /\ (result = "Medium")    <=> (p >= Pct(40) /\ p < Pct(60))
        /\ (result = "Low")       <=> (p >= Pct(20) /\ p < Pct(40))
        /\ (result = "Very Low")  <=> (p < Pct(20))

\* the probability is exactly 0.6 and the category is High
C7_Witness ==
    /\ CategoryCall
    /\ request.probability = Pct(60)
    /\ result = "High"

CategoryRank(c) ==
    CASE c = "Very Low" -> 0 [] c = "Low" -> 1 [] c = "Medium" -> 2
      [] c = "High" -> 3 [] c = "Very High" -> 4

\* C8: the category never decreases when the probability increases, in the
\* order Very Low < Low < Medium < High < Very High.
C8_CategoryMonotone ==
    CategoryCall =>
        \A q \in Probabilities :
            request.probability <= q
                => CategoryRank(result) <= CategoryRank(_get_probability_category(q))

\* some larger probability has a strictly higher category
C8_Witness ==
    /\ CategoryCall
    /\ \E q \in Probabilities :
           /\ request.probability <= q
           /\ CategoryRank(result) < CategoryRank(_get_probability_category(q))

====
